---- MODULE Spec2Model ----
(***************************************************************************)
(* Model of the session core of tools/commissioner-cli/main.py: the class  *)
(* PicoFIDODevice (find_device, get_pin_token, reset_device, set_pin,      *)
(* send_config_command) driving one Pico FIDO authenticator through the    *)
(* CTAP2 client library.  Each handler is one atomic step; the outcome of  *)
(* every library call it makes (a transport exchange with the device) is   *)
(* an input of the step.  The authenticator is modelled by the pieces of  *)
(* its state the handlers depend on: its PIN, the PIN token it currently   *)
(* honours, the PIN protocol it speaks and a count of its state changes.   *)
(* Spec calls the handlers of the class in any order; MainSpec runs        *)
(* main(): the discovery at the start, then one choice of the menu per     *)
(* step (configure_button_timeout, configure_led_settings,                 *)
(* configure_phy_options, configure_vidpid, show_device_info, setup_pin,   *)
(* factory_reset) until the program exits.                                 *)
(***************************************************************************)
EXTENDS Integers, Sequences, FiniteSets, TLC

VARIABLES
    dev,           \* self.dev: the HID device handle, or None
    ctap2,         \* self.ctap2: the Ctap2 protocol client, or None
    info,          \* self.info: the Device Info snapshot, or None
    client_pin,    \* self.client_pin: the ClientPin object (its protocol version), or None
    pin_token,     \* self.pin_token: the PIN token, or None
    pin_protocol,  \* self.pin_protocol: the recorded PIN protocol version, or None
    devPin,        \* authenticator: the PIN it holds (NonePin: none set)
    devTok,        \* authenticator: the PIN token it currently honours (NoToken: none)
    devEpoch,      \* authenticator: number of state changes (PIN set, PIN change, reset) so far
    devProto,      \* authenticator: the PIN protocol version the library negotiates with it
    issued,        \* number of PIN tokens the authenticator has issued so far
    issuedVia,     \* per token issued, the protocol of the ClientPin that obtained it
    lastOp,        \* name of the handler that ran last
    lastRet,       \* what it returned: "True", "False", or the exception that left it
    calls,         \* the prompts and library calls the last handler made, in order
    pre,           \* the session fields as they were when the last handler was entered
    arg,           \* the arguments the last handler was called with
    retired,       \* the tokens the session held when a send_config_command failed
                   \* or a set_pin succeeded
    pc             \* where the program is: "api" when the class is driven directly,
                   \* "start", "menu", "exit0" or "exit1" when main() runs

vars == <<dev, ctap2, info, client_pin, pin_token, pin_protocol,
          devPin, devTok, devEpoch, devProto, issued, issuedVia,
          lastOp, lastRet, calls, pre, arg, retired, pc>>

----------------------------------------------------------------------------
(* Bounds of the model *)

\* the authenticator issues at most this many PIN tokens in a run
MaxTokens == 2
\* the authenticator changes state (PIN set, PIN change, reset) at most this often
MaxEpoch == 2

----------------------------------------------------------------------------
(* Values *)

NoneV == "None"
NoToken == 0
NoClient == 0
NoProtocol == 0
\* None where a PIN is expected (no PIN typed at a prompt is empty)
NonePin == ""
NoInfo == [present |-> FALSE, clientPin |-> FALSE, epoch |-> 0]

CTAP_AUTHENTICATOR_CONFIG == 13
\* the vendor command ids, 64-bit integers given by their 8 big-endian bytes
CTAP_CONFIG_PHY_VIDPID == <<111, 203, 25, 176, 203, 227, 172, 250>>
CTAP_CONFIG_PHY_LED_BTNESS == <<118, 168, 89, 69, 152, 93, 2, 253>>
CTAP_CONFIG_PHY_LED_GPIO == <<123, 57, 42, 57, 77, 233, 249, 72>>
CTAP_CONFIG_PHY_OPTS == <<38, 159, 59, 9, 236, 235, 128, 95>>
CTAP_CONFIG_PHY_UP_BTN == <<26, 43, 60, 77, 94, 111, 120, 144>>

\* the new PINs typed at the prompts or passed as arguments: of 3, 4 and 64 characters
Pin64 == "0123456789012345678901234567890123456789012345678901234567890123"
Pins == {"abc", "4321", Pin64}

\* the PINs typed where the current PIN is asked for
AuthPins == {"1234", "4321"}

\* the PIN lengths the authenticator accepts
DevMinPinLen == 4
DevMaxPinLen == 63

\* the configuration commands and values sent
Commands == {CTAP_CONFIG_PHY_UP_BTN}
ConfigValues == {30}

\* the numbers typed at the prompts of the menu: the ends of each range and
\* the nearest values outside
Timeouts == {-1, 0, 255, 256}
GpioPins == {-1, 0, 29, 30}
Brightnesses == {-1, 0, 255, 256}
PhyOptions == {-1, 0, 15, 16}
\* the (vid, pid) typed: (0x2E8A, 0x10FE), (0x7FFF, 0xFFFF), (0, 0x10FE),
\* (0, 0), and one of the two just outside 16 bits
VidPids == {<<11914, 4350>>, <<32767, 65535>>, <<0, 4350>>, <<0, 0>>,
            <<-1, 0>>, <<65536, 0>>, <<0, -1>>, <<0, 65536>>}

\* what the menu makes of a dispatch: accepted or not
MenuOutcomes == {"ok", "rejected"}

ResetOutcomes == {"ok", "NOT_ALLOWED", "TIMEOUT", "error", "interrupt"}
ConfigOutcomes == {"ok", "rejected", "transport"}

----------------------------------------------------------------------------
(* The world a handler runs in: the session fields, the authenticator and *)
(* the log of calls, as one record                                         *)

Cur ==
    [dev |-> dev, ctap2 |-> ctap2, info |-> info, client_pin |-> client_pin,
     pin_token |-> pin_token, pin_protocol |-> pin_protocol,
     devPin |-> devPin, devTok |-> devTok, devEpoch |-> devEpoch,
     devProto |-> devProto, issued |-> issued, issuedVia |-> issuedVia,
     calls |-> <<>>]

Session(w) ==
    [dev |-> w.dev, ctap2 |-> w.ctap2, info |-> w.info, client_pin |-> w.client_pin,
     pin_token |-> w.pin_token, pin_protocol |-> w.pin_protocol]

Ev(name, ok, tok, pin, data) ==
    [ev |-> name, ok |-> ok, tok |-> tok, pin |-> pin, data |-> data]

Log(w, e) == [w EXCEPT !.calls = Append(@, e)]

Ret(w, r) == [w |-> w, ret |-> r]

----------------------------------------------------------------------------
(* The library calls *)

\* what the authenticator answers to authenticatorGetInfo
DeviceInfo(w) ==
    [present |-> TRUE, clientPin |-> w.devPin # NonePin, epoch |-> w.devEpoch]

\* self.ctap2.get_info(): net = the exchange completes
ctap2_get_info(w, net) ==
    [w |-> Log(w, Ev("get_info", net, NoToken, NonePin, <<>>)),
     ok |-> net, val |-> DeviceInfo(w)]

\* ClientPin(self.ctap2): the client speaks the protocol negotiated with the device
ClientPin(w) == w.devProto

\* self.client_pin.get_pin_token(pin, PERMISSION_ACFG)
client_get_pin_token(w, pin, net) ==
    LET good == net /\ w.devPin # NonePin /\ pin = w.devPin
        t == w.issued + 1
        w1 == Log(w, Ev("get_pin_token", good, IF good THEN t ELSE NoToken, pin, <<>>))
    IN  IF good
        THEN [w |-> [w1 EXCEPT !.devTok = t, !.issued = t,
                               !.issuedVia = Append(@, w.client_pin)],
              ok |-> TRUE, val |-> t]
        ELSE [w |-> w1, ok |-> FALSE, val |-> NoToken]

\* a reset request that is sent once more when it failed
ctap2_reset_Retried(w, out) ==
    LET w1 == Log(w, Ev("reset", out = "ok", NoToken, NonePin, out))
        w2 == IF out \in {"ok", "interrupt"}
              THEN w1
              ELSE Log(w1, Ev("reset", FALSE, NoToken, NonePin, out))
    IN  IF out = "ok"
        THEN [w |-> [w2 EXCEPT !.devPin = NonePin, !.devTok = NoToken,
                               !.devEpoch = @ + 1],
              ok |-> TRUE]
        ELSE [w |-> w2, ok |-> FALSE]

\* self.ctap2.reset(): out = what the authenticator and the user make of it.
\* A reset erases the PIN and with it every PIN token.
ctap2_reset(w, out) ==
    LET w1 == Log(w, Ev("reset", out = "ok", NoToken, NonePin, out))
    IN  IF out = "ok"
        THEN [w |-> [w1 EXCEPT !.devPin = NonePin, !.devTok = NoToken,
                               !.devEpoch = @ + 1],
              ok |-> TRUE]
        ELSE [w |-> w1, ok |-> FALSE]

\* the authenticator is the authority on the length of a new PIN
DevAcceptsPin(new_pin) ==
    Len(new_pin) >= DevMinPinLen /\ Len(new_pin) <= DevMaxPinLen

\* self.client_pin.set_pin(new_pin)
client_set_pin(w, new_pin, net) ==
    LET good == net /\ w.devPin = NonePin /\ DevAcceptsPin(new_pin)
        w1 == Log(w, Ev("set_pin", good, NoToken, new_pin, <<>>))
    IN  IF good
        THEN [w |-> [w1 EXCEPT !.devPin = new_pin, !.devEpoch = @ + 1], ok |-> TRUE]
        ELSE [w |-> w1, ok |-> FALSE]

\* self.client_pin.change_pin(old_pin, new_pin): a changed PIN ends the PIN token
client_change_pin(w, old_pin, new_pin, net) ==
    LET good == net /\ w.devPin # NonePin /\ old_pin = w.devPin /\ DevAcceptsPin(new_pin)
        w1 == Log(w, Ev("change_pin", good, NoToken, new_pin, old_pin))
    IN  IF good
        THEN [w |-> [w1 EXCEPT !.devPin = new_pin, !.devTok = NoToken,
                               !.devEpoch = @ + 1],
              ok |-> TRUE]
        ELSE [w |-> w1, ok |-> FALSE]

\* an encoder that keeps the low byte of a value of 256 or more
CborUInt_OneByte(n) == IF n < 24 THEN <<n>> ELSE <<24, n % 256>>

\* cbor2.dumps of a non-negative integer below 2^31: major type 0, shortest form
CborUInt(n) ==
    IF n < 24 THEN <<n>>
    ELSE IF n < 256 THEN <<24, n>>
    ELSE IF n < 65536 THEN <<25, n \div 256, n % 256>>
    ELSE <<26, n \div 16777216, (n \div 65536) % 256, (n \div 256) % 256, n % 256>>

\* cbor2.dumps of a vendor command id, an integer of 2^32 or more given by its
\* 8 big-endian bytes
CborUInt64(bytes) == <<27>> \o bytes

\* lines 215-218: subcommand_params, a dict with the keys 0x01 and 0x03
SubcommandParams(vendor_command_id, param_value) ==
    [k \in {1, 3} |-> IF k = 1 THEN vendor_command_id ELSE param_value]

\* line 220: cbor2.dumps(subcommand_params), a map of two pairs
SubcommandBytes(params) ==
    <<162>> \o <<1>> \o CborUInt64(params[1]) \o <<3>> \o CborUInt(params[3])

\* the length in bytes of the tag of a PIN protocol: HMAC-SHA-256 cut to 16
\* bytes in protocol 1, whole in protocol 2
TagLength(version) == IF version = 1 THEN 16 ELSE 32

\* the CBOR head of a byte string of n bytes, n < 256
CborBytesHead(n) == IF n < 24 THEN <<64 + n>> ELSE <<88, n>>

\* the encoding send_cbor puts on the wire for config_data: a map of four
\* pairs; the tag is a byte string whose bytes stay symbolic
CborEnvelope(config_data) ==
    <<164>> \o <<1>> \o CborUInt(config_data[1])
            \o <<2>> \o SubcommandBytes(config_data[2])
            \o <<3>> \o CborUInt(config_data[3])
            \o <<4>> \o CborBytesHead(TagLength(config_data[3])) \o <<config_data[4]>>

\* self.pin_protocol.authenticate(self.pin_token, message): the tag is a
\* function of the protocol version, the key and the message
authenticate(version, token, message) == <<version, token, message>>

\* self.ctap2.send_cbor(CTAP_AUTHENTICATOR_CONFIG, config_data): the
\* authenticator accepts an envelope only under the token it honours and in
\* the protocol it speaks; out = what the transport and the firmware allow
ctap2_send_cbor(w, cmd, config_data, token, out) ==
    LET good == /\ out = "ok"
                /\ token # NoToken
                /\ token = w.devTok
                /\ config_data[3] = w.devProto
        w1 == Log(w, Ev("send_cbor", good, token, NonePin,
                        <<cmd, config_data, CborEnvelope(config_data)>>))
    IN  [w |-> w1, ok |-> good]

----------------------------------------------------------------------------
(* The handlers *)

\* lines 58-72: listed = a device is listed, opened = Ctap2(self.dev) returns;
\* line 65 is outside the try, so what the constructor raises leaves find_device
find_device(w, listed, opened, net) ==
    LET w0 == Log(w, Ev("list_devices", listed, NoToken, NonePin, <<>>))
    IN  IF ~listed
        THEN Ret(w0, "False")
        ELSE LET w1 == Log([w0 EXCEPT !.dev = "devices[0]"],
                           Ev("Ctap2", opened, NoToken, NonePin, <<>>))
             IN  IF ~opened
                 THEN Ret(w1, "Exception")
                 ELSE LET g == ctap2_get_info([w1 EXCEPT !.ctap2 = "Ctap2"], net)
                      IN  IF g.ok
                          THEN Ret([g.w EXCEPT !.info = g.val], "True")
                          ELSE Ret(g.w, "False")

\* a guard that takes every session for connected
NotConnected_Never(w) == FALSE

\* lines 88, 123 and 159: not self.ctap2
NotConnected(w) == w.ctap2 = NoneV

SelectProtocol_AlwaysV2(client) == 2

\* lines 98-106: the protocol recorded for the session
SelectProtocol(client) == IF client # NoClient THEN client ELSE 2

\* a check that takes the PIN for set whatever Device Info says
HasClientPin_Assumed(w) == TRUE

\* line 92: self.info.options.get("clientPin"), None when the option is absent
HasClientPin(w) == w.info.clientPin

get_pin_token(w, pin, typed, net) ==
    IF NotConnected(w)
    THEN Ret(w, "False")
    ELSE IF ~w.info.present
    THEN Ret(w, "False")
    ELSE IF ~HasClientPin(w)
    THEN Ret(w, "False")
    ELSE LET w1 == [w EXCEPT !.client_pin = ClientPin(w)]
             w2 == [w1 EXCEPT !.pin_protocol = SelectProtocol(w1.client_pin)]
             w3 == IF pin = NonePin
                   THEN Log(w2, Ev("getpass", TRUE, NoToken, typed, "pin"))
                   ELSE w2
             p == IF pin = NonePin THEN typed ELSE pin
             r == client_get_pin_token(w3, p, net)
         IN  IF r.ok
             THEN Ret([r.w EXCEPT !.pin_token = r.val], "True")
             ELSE Ret(r.w, "False")

\* a reset that clears the token and the PIN client but keeps the old snapshot
ResetSucceeded_StaleInfo(w, new_info) ==
    [w EXCEPT !.pin_token = NoToken, !.client_pin = NoClient]

\* lines 132-134: the session after a reset the authenticator carried out
ResetSucceeded(w, new_info) ==
    [w EXCEPT !.info = new_info, !.pin_token = NoToken, !.client_pin = NoClient]

\* a reset that takes a refusal of the device for a success
reset_device_IgnoresRefusal(w, out, net) ==
    IF w.ctap2 = NoneV
    THEN Ret(w, "False")
    ELSE LET r == ctap2_reset(w, out)
         IN  IF out = "interrupt"
             THEN Ret(r.w, "KeyboardInterrupt")
             ELSE LET g == ctap2_get_info(r.w, net)
                  IN  IF g.ok
                      THEN Ret(ResetSucceeded(g.w, g.val), "True")
                      ELSE Ret(g.w, "False")

\* a reset that forgets the token and the PIN client before it asks the device
reset_device_ForgetsFirst(w, out, net) ==
    IF w.ctap2 = NoneV
    THEN Ret(w, "False")
    ELSE LET r == ctap2_reset([w EXCEPT !.pin_token = NoToken, !.client_pin = NoClient],
                              out)
         IN  IF out = "interrupt"
             THEN Ret(r.w, "KeyboardInterrupt")
             ELSE IF ~r.ok
             THEN Ret(r.w, "False")
             ELSE LET g == ctap2_get_info(r.w, net)
                  IN  IF g.ok
                      THEN Ret(ResetSucceeded(g.w, g.val), "True")
                      ELSE Ret(g.w, "False")

reset_device(w, out, net) ==
    IF NotConnected(w)
    THEN Ret(w, "False")
    ELSE LET r == ctap2_reset(w, out)
         IN  IF out = "interrupt"
             THEN Ret(r.w, "KeyboardInterrupt")
             ELSE IF ~r.ok
             THEN Ret(r.w, "False")
             ELSE LET g == ctap2_get_info(r.w, net)
                  IN  IF g.ok
                      THEN Ret(ResetSucceeded(g.w, g.val), "True")
                      ELSE Ret(g.w, "False")

\* a length check that lets 3 characters through
PinTooShort_OffByOne(new_pin) == Len(new_pin) < 3

\* line 191: len(new_pin) < 4
PinTooShort(new_pin) == Len(new_pin) < 4

\* a set_pin that forgets to drop the token
SetPinSucceeded_KeepsToken(w) == w

\* line 200: self.pin_token = None
SetPinSucceeded(w) == [w EXCEPT !.pin_token = NoToken]

\* prompts that do not compare the two PINs typed
PromptNewPin_NoCompare(w, new_pin, typed, confirm) ==
    IF new_pin = NonePin
    THEN [w |-> Log(Log(w, Ev("getpass", TRUE, NoToken, typed, "new")),
                    Ev("getpass", TRUE, NoToken, confirm, "confirm")),
          new_pin |-> typed, match |-> TRUE]
    ELSE [w |-> w, new_pin |-> new_pin, match |-> TRUE]

\* lines 172-177 and 184-189: with no new_pin argument the PIN is typed twice
PromptNewPin(w, new_pin, typed, confirm) ==
    IF new_pin = NonePin
    THEN [w |-> Log(Log(w, Ev("getpass", TRUE, NoToken, typed, "new")),
                    Ev("getpass", TRUE, NoToken, confirm, "confirm")),
          new_pin |-> typed, match |-> typed = confirm]
    ELSE [w |-> w, new_pin |-> new_pin, match |-> TRUE]

set_pin(w, new_pin, old_pin, typed, confirm, net, infoNet) ==
    IF NotConnected(w)
    THEN Ret(w, "False")
    ELSE LET w1 == IF w.client_pin = NoClient
                   THEN [w EXCEPT !.client_pin = ClientPin(w)]
                   ELSE w
         IN  IF ~w1.info.present
             THEN Ret(w1, "False")
             ELSE IF w1.info.clientPin
             THEN LET w2 == Log(w1, Ev("getpass", TRUE, NoToken, old_pin, "current"))
                      p == PromptNewPin(w2, new_pin, typed, confirm)
                  IN  IF ~p.match
                      THEN Ret(p.w, "False")
                      ELSE LET c == client_change_pin(p.w, old_pin, p.new_pin, net)
                           IN  IF c.ok
                               THEN Ret(SetPinSucceeded(c.w), "True")
                               ELSE Ret(c.w, "False")
             ELSE LET p == PromptNewPin(w1, new_pin, typed, confirm)
                  IN  IF ~p.match
                      THEN Ret(p.w, "False")
                      ELSE IF PinTooShort(p.new_pin)
                      THEN Ret(p.w, "False")
                      ELSE LET c == client_set_pin(p.w, p.new_pin, net)
                           IN  IF ~c.ok
                               THEN Ret(c.w, "False")
                               ELSE LET g == ctap2_get_info(c.w, infoNet)
                                    IN  IF g.ok
                                        THEN Ret(SetPinSucceeded([g.w EXCEPT !.info = g.val]),
                                                 "True")
                                        ELSE Ret(g.w, "False")

\* a send_config_command that never authenticates on its own
NeedsAuth_Never(w) == FALSE

\* line 211: not self.pin_token
NeedsAuth(w) == w.pin_token = NoToken

\* an exception handler that drops the Device Info snapshot with the token
OnConfigException_DropsInfo(w) == [w EXCEPT !.pin_token = NoToken, !.info = NoInfo]

\* an exception handler that leaves the token in place
OnConfigException_KeepsToken(w) == w

\* lines 237-240: the handler of an exception raised while building or sending
OnConfigException(w) == [w EXCEPT !.pin_token = NoToken]

\* line 222: the bytes that are authenticated
ConfigMessage(vendor_command_id, param_value) ==
    [i \in 1..32 |-> 255] \o <<13>> \o <<255>>
        \o SubcommandBytes(SubcommandParams(vendor_command_id, param_value))

\* lines 224-231: config_data, a dict with the keys 0x01 to 0x04
ConfigData(w, vendor_command_id, param_value) ==
    <<255,
      SubcommandParams(vendor_command_id, param_value),
      w.pin_protocol,
      authenticate(w.pin_protocol, w.pin_token,
                   ConfigMessage(vendor_command_id, param_value))>>

send_config_command(w, vendor_command_id, param_value, typed, net, out) ==
    LET a == IF NeedsAuth(w)
             THEN get_pin_token(w, NonePin, typed, net)
             ELSE Ret(w, "True")
    IN  IF a.ret # "True"
        THEN Ret(a.w, "False")
        ELSE IF a.w.pin_protocol = NoProtocol \/ a.w.pin_token = NoToken
        THEN \* line 224 raises: None has no authenticate, None is no key
             Ret(OnConfigException(a.w), "False")
        ELSE LET d == ctap2_send_cbor(a.w, CTAP_AUTHENTICATOR_CONFIG,
                                      ConfigData(a.w, vendor_command_id, param_value),
                                      a.w.pin_token, out)
             IN  IF d.ok
                 THEN Ret(d.w, "True")
                 ELSE Ret(OnConfigException(d.w), "False")

----------------------------------------------------------------------------
(* The menu operations and main() *)

\* line 283
TimeoutOutOfRange(timeout) == timeout < 0 \/ timeout > 255

\* lines 270-309; IntPrompt.ask returns an integer
configure_button_timeout(w, timeout, typed, net, out) ==
    IF TimeoutOutOfRange(timeout)
    THEN Ret(w, "False")
    ELSE send_config_command(w, CTAP_CONFIG_PHY_UP_BTN, timeout, typed, net, out)

\* a check that lets GPIO 30 through
GpioOutOfRange_OffByOne(gpio_pin) == gpio_pin < 0 \/ gpio_pin > 30

\* line 335
GpioOutOfRange(gpio_pin) == gpio_pin < 0 \/ gpio_pin > 29

\* line 357
BrightnessOutOfRange(brightness) == brightness < 0 \/ brightness > 255

\* lines 312-374: parsed = int() accepts what was typed; the function returns None
configure_led_settings(w, choice, parsed, number, typed, net, out) ==
    IF choice = "0"
    THEN Ret(w, "None")
    ELSE IF choice = "1"
    THEN IF ~parsed
         THEN Ret(w, "None")
         ELSE IF GpioOutOfRange(number)
         THEN Ret(w, "None")
         ELSE Ret(send_config_command(w, CTAP_CONFIG_PHY_LED_GPIO, number,
                                      typed, net, out).w, "None")
    ELSE IF choice = "2"
    THEN IF ~parsed
         THEN Ret(w, "None")
         ELSE IF BrightnessOutOfRange(number)
         THEN Ret(w, "None")
         ELSE Ret(send_config_command(w, CTAP_CONFIG_PHY_LED_BTNESS, number,
                                      typed, net, out).w, "None")
    ELSE Ret(w, "None")

\* line 406
OptsOutOfRange(opts_value) == opts_value < 0 \/ opts_value > 15

\* lines 377-439: confirm is the answer stripped and lowered
configure_phy_options(w, parsed, opts_value, confirm, typed, net, out) ==
    IF ~parsed
    THEN Ret(w, "None")
    ELSE IF OptsOutOfRange(opts_value)
    THEN Ret(w, "None")
    ELSE IF confirm # "y"
    THEN Ret(w, "None")
    ELSE Ret(send_config_command(w, CTAP_CONFIG_PHY_OPTS, opts_value,
                                 typed, net, out).w, "None")

\* lines 474 and 478
VidOutOfRange(vid) == vid < 0 \/ vid > 65535
PidOutOfRange(pid) == pid < 0 \/ pid > 65535

\* n << k for a non-negative n
ShiftLeft(n, k) == n * 2^k

\* a | b for non-negative a and b
RECURSIVE BitOr(_, _)
BitOr(a, b) ==
    IF a = 0 THEN b
    ELSE IF b = 0 THEN a
    ELSE 2 * BitOr(a \div 2, b \div 2) + (IF a % 2 = 1 \/ b % 2 = 1 THEN 1 ELSE 0)

\* a value whose VID is shifted by one byte only
VidPidValue_Shift8(vid, pid) == BitOr(ShiftLeft(vid, 8), pid)

\* line 491
VidPidValue(vid, pid) == BitOr(ShiftLeft(vid, 16), pid)

\* lines 442-508: confirm is the first answer stripped and lowered,
\* final_confirm the second one stripped
configure_vidpid(w, confirm, parsed, vid, pid, final_confirm, typed, net, out) ==
    IF confirm # "yes"
    THEN Ret(w, "None")
    ELSE IF ~parsed
    THEN Ret(w, "None")
    ELSE IF VidOutOfRange(vid)
    THEN Ret(w, "None")
    ELSE IF PidOutOfRange(pid)
    THEN Ret(w, "None")
    ELSE IF final_confirm # "YES"
    THEN Ret(w, "None")
    ELSE Ret(send_config_command(w, CTAP_CONFIG_PHY_VIDPID, VidPidValue(vid, pid),
                                 typed, net, out).w, "None")

\* lines 511-552: prints, changes nothing
show_device_info(w) == Ret(w, "None")

\* lines 555-587
setup_pin(w, old_pin, typed, confirm, net, infoNet) ==
    set_pin(w, NonePin, old_pin, typed, confirm, net, infoNet)

\* lines 590-648: an interrupt of the wait in reset_device ends the function
\* in its handler of KeyboardInterrupt
factory_reset(w, confirm1, confirm2, out, net) ==
    IF confirm1 # "RESET"
    THEN Ret(w, "False")
    ELSE IF confirm2 # "YES"
    THEN Ret(w, "False")
    ELSE LET r == reset_device(w, out, net)
         IN  IF r.ret = "KeyboardInterrupt"
             THEN Ret(r.w, "False")
             ELSE Ret(r.w, r.ret)

\* a start that goes on to the menu without a device
OnDiscoveryFailed_Continues(w) == Ret(w, "menu")

\* lines 659-664
OnDiscoveryFailed(w) == Ret(w, "SystemExit(1)")

\* lines 651-682: main() up to its loop; setup_now is the answer stripped and lowered
main(w, listed, opened, net, setup_now, old_pin, typed, confirm, pinNet, infoNet) ==
    LET f == find_device(w, listed, opened, net)
    IN  IF f.ret = "Exception"
        THEN Ret(f.w, "Exception")
        ELSE IF f.ret # "True"
        THEN OnDiscoveryFailed(f.w)
        ELSE IF ~f.w.info.clientPin /\ setup_now = "y"
        THEN Ret(setup_pin(f.w, old_pin, typed, confirm, pinNet, infoNet).w, "menu")
        ELSE Ret(f.w, "menu")

----------------------------------------------------------------------------
(* The specification: the handlers are called in any order *)

\* the session PicoFIDODevice() constructs, and an authenticator
Constructed ==
    /\ dev = NoneV
    /\ ctap2 = NoneV
    /\ info = NoInfo
    /\ client_pin = NoClient
    /\ pin_token = NoToken
    /\ pin_protocol = NoProtocol
    /\ devPin \in {NonePin, "1234"}
    /\ devTok = NoToken
    /\ devEpoch = 0
    /\ devProto \in {1, 2}
    /\ issued = 0
    /\ issuedVia = <<>>
    /\ lastOp = "init"
    /\ lastRet = "True"
    /\ calls = <<>>
    /\ pre = Session(Cur)
    /\ arg = [pin |-> NonePin, cmd |-> <<>>, value |-> 0, input |-> <<>>]
    /\ retired = {}

Init == Constructed /\ pc = "api"

\* the tokens the session held at some point of the call that ended as r
HeldDuring(r) ==
    ({pin_token} \cup {r.w.calls[i].tok : i \in DOMAIN r.w.calls}) \ {NoToken}

\* lines 658-664 and 684-720: where main() goes after op ended as ret
NextPc(op, ret) ==
    IF pc = "api" THEN "api"
    ELSE IF ret \in {"SystemExit(1)", "Exception"} THEN "exit1"
    ELSE IF ret \in {"break", "KeyboardInterrupt"} THEN "exit0"
    ELSE "menu"

\* the step that runs handler op with arguments a and ends as res
Done(op, a, res) ==
    \E r \in {res} :
       /\ r.w.issued <= MaxTokens
       /\ r.w.devEpoch <= MaxEpoch
       /\ dev' = r.w.dev
       /\ ctap2' = r.w.ctap2
       /\ info' = r.w.info
       /\ client_pin' = r.w.client_pin
       /\ pin_token' = r.w.pin_token
       /\ pin_protocol' = r.w.pin_protocol
       /\ devPin' = r.w.devPin
       /\ devTok' = r.w.devTok
       /\ devEpoch' = r.w.devEpoch
       /\ devProto' = r.w.devProto
       /\ issued' = r.w.issued
       /\ issuedVia' = r.w.issuedVia
       /\ lastOp' = op
       /\ lastRet' = r.ret
       /\ calls' = r.w.calls
       /\ pre' = Session(Cur)
       /\ arg' = a
       /\ retired' = IF \/ op = "send_config_command" /\ r.ret = "False"
                        \/ op = "set_pin" /\ r.ret = "True"
                     THEN retired \cup HeldDuring(r)
                     ELSE retired
       /\ pc' = NextPc(op, r.ret)

NoArg == [pin |-> NonePin, cmd |-> <<>>, value |-> 0, input |-> <<>>]

\* a confirmation that differs from the PIN typed first
Mistyped(pin) == pin \o "x"

FindDevice ==
    \E listed \in BOOLEAN, opened \in BOOLEAN, net \in BOOLEAN :
        /\ ~listed => opened
        /\ ~opened => net
        /\ Done("find_device", NoArg, find_device(Cur, listed, opened, net))

GetPinToken ==
    \E pin \in AuthPins \cup {NonePin}, typed \in AuthPins, net \in BOOLEAN :
        /\ pin # NonePin => typed = pin
        /\ Done("get_pin_token", [NoArg EXCEPT !.pin = pin],
                get_pin_token(Cur, pin, typed, net))

ResetDevice ==
    \E out \in ResetOutcomes, net \in BOOLEAN :
        /\ out # "ok" => net
        /\ Done("reset_device", NoArg, reset_device(Cur, out, net))

SetPin ==
    \E new_pin \in Pins \cup {NonePin}, old_pin \in AuthPins, typed \in Pins,
       match \in BOOLEAN, net \in BOOLEAN, infoNet \in BOOLEAN :
        /\ new_pin # NonePin => (typed = new_pin /\ match)
        /\ ~net => infoNet
        /\ ~info.clientPin => old_pin = "1234"
        /\ info.clientPin => infoNet
        /\ Done("set_pin", [NoArg EXCEPT !.pin = new_pin],
                set_pin(Cur, new_pin, old_pin, typed,
                        IF match THEN typed ELSE Mistyped(typed), net, infoNet))

SendConfigCommand ==
    \E cmd \in Commands, value \in ConfigValues, typed \in AuthPins,
       net \in BOOLEAN, out \in ConfigOutcomes :
        /\ pin_token # NoToken => (typed = "1234" /\ net)
        /\ Done("send_config_command", [NoArg EXCEPT !.cmd = cmd, !.value = value],
                send_config_command(Cur, cmd, value, typed, net, out))

Next ==
    \/ FindDevice
    \/ GetPinToken
    \/ ResetDevice
    \/ SetPin
    \/ SendConfigCommand

Spec == Init /\ [][Next]_vars

----------------------------------------------------------------------------
(* The specification of the program: main() finds the device, then serves *)
(* one choice of the menu per step                                         *)

MainInit == Constructed /\ pc = "start"

\* the PIN typed and the outcome of the PIN exchange are inputs only of a
\* call that gets as far as the PIN prompt, the outcome of the dispatch only
\* of one that gets as far as send_cbor
SendInputs(sends, typed, net, out) ==
    LET asks == sends /\ pin_token = NoToken /\ info.clientPin
    IN  /\ ~asks => (typed = "1234" /\ net)
        /\ ~(sends /\ (pin_token # NoToken \/ (asks /\ net /\ typed = devPin)))
              => out = "ok"

Main ==
    \E listed \in BOOLEAN, opened \in BOOLEAN, net \in BOOLEAN, setup_now \in {"y", "n"},
       typed \in Pins, match \in BOOLEAN, pinNet \in BOOLEAN :
        /\ pc = "start"
        /\ ~listed => opened
        /\ ~opened => net
        /\ (~listed \/ ~opened \/ ~net \/ devPin # NonePin) => setup_now = "n"
        /\ setup_now = "n" => (typed = "abc" /\ match /\ pinNet)
        /\ Done("main", [NoArg EXCEPT !.input = <<setup_now>>],
                main(Cur, listed, opened, net, setup_now, "1234", typed,
                     IF match THEN typed ELSE Mistyped(typed), pinNet, TRUE))

ConfigureButtonTimeout ==
    \E timeout \in Timeouts, typed \in AuthPins, net \in BOOLEAN, out \in MenuOutcomes :
        /\ pc = "menu"
        /\ SendInputs(~TimeoutOutOfRange(timeout), typed, net, out)
        /\ Done("configure_button_timeout", [NoArg EXCEPT !.input = <<timeout>>],
                configure_button_timeout(Cur, timeout, typed, net, out))

ConfigureLedSettings ==
    \E choice \in {"0", "1", "2", "3"}, parsed \in BOOLEAN,
       number \in GpioPins \cup Brightnesses,
       typed \in AuthPins, net \in BOOLEAN, out \in MenuOutcomes :
        /\ pc = "menu"
        /\ choice = "1" => number \in GpioPins
        /\ choice = "2" => number \in Brightnesses
        /\ choice \in {"0", "3"} => (number = 0 /\ parsed)
        /\ ~parsed => number = 0
        /\ SendInputs(\/ choice = "1" /\ parsed /\ ~GpioOutOfRange(number)
                      \/ choice = "2" /\ parsed /\ ~BrightnessOutOfRange(number),
                      typed, net, out)
        /\ Done("configure_led_settings",
                [NoArg EXCEPT !.input = <<choice, parsed, number>>],
                configure_led_settings(Cur, choice, parsed, number, typed, net, out))

ConfigurePhyOptions ==
    \E parsed \in BOOLEAN, opts_value \in PhyOptions, confirm \in {"y", "n"},
       typed \in AuthPins, net \in BOOLEAN, out \in MenuOutcomes :
        /\ pc = "menu"
        /\ ~parsed => (opts_value = 0 /\ confirm = "y")
        /\ confirm # "y" => opts_value = 15
        /\ SendInputs(parsed /\ ~OptsOutOfRange(opts_value) /\ confirm = "y",
                      typed, net, out)
        /\ Done("configure_phy_options",
                [NoArg EXCEPT !.input = <<parsed, opts_value, confirm>>],
                configure_phy_options(Cur, parsed, opts_value, confirm, typed, net, out))

ConfigureVidPid ==
    \E confirm \in {"yes", "no"}, parsed \in BOOLEAN, typedIds \in VidPids,
       final_confirm \in {"YES", "yes"},
       typed \in AuthPins, net \in BOOLEAN, out \in MenuOutcomes :
        LET vid == typedIds[1]
            pid == typedIds[2]
        IN  /\ pc = "menu"
            /\ (confirm = "no" \/ ~parsed) => (typedIds = <<0, 0>> /\ final_confirm = "YES")
            /\ final_confirm # "YES" => typedIds = <<11914, 4350>>
            /\ confirm = "no" => parsed
            /\ SendInputs(/\ confirm = "yes" /\ parsed /\ final_confirm = "YES"
                          /\ ~VidOutOfRange(vid) /\ ~PidOutOfRange(pid),
                          typed, net, out)
            /\ Done("configure_vidpid",
                    [NoArg EXCEPT !.input = <<confirm, parsed, vid, pid, final_confirm>>],
                    configure_vidpid(Cur, confirm, parsed, vid, pid, final_confirm,
                                     typed, net, out))

ShowDeviceInfo ==
    /\ pc = "menu"
    /\ Done("show_device_info", NoArg, show_device_info(Cur))

SetupPin ==
    \E old_pin \in AuthPins, typed \in Pins, match \in BOOLEAN, net \in BOOLEAN,
       infoNet \in BOOLEAN :
        /\ pc = "menu"
        /\ ~net => infoNet
        /\ ~info.clientPin => old_pin = "1234"
        /\ info.clientPin => infoNet
        /\ Done("setup_pin", NoArg,
                setup_pin(Cur, old_pin, typed,
                          IF match THEN typed ELSE Mistyped(typed), net, infoNet))

FactoryReset ==
    \E confirm1 \in {"RESET", "reset"}, confirm2 \in {"YES", "no"},
       out \in ResetOutcomes, net \in BOOLEAN :
        /\ pc = "menu"
        /\ confirm1 # "RESET" => confirm2 = "YES"
        /\ (confirm1 # "RESET" \/ confirm2 # "YES") => out = "ok"
        /\ out # "ok" => net
        /\ Done("factory_reset", [NoArg EXCEPT !.input = <<confirm1, confirm2>>],
                factory_reset(Cur, confirm1, confirm2, out, net))

\* lines 692-693 and 715-716: choice "0", or Ctrl-C at the menu
Exit ==
    /\ pc = "menu"
    /\ Done("exit", NoArg, Ret(Cur, "break"))

MainNext ==
    \/ Main
    \/ ConfigureButtonTimeout
    \/ ConfigureLedSettings
    \/ ConfigurePhyOptions
    \/ ConfigureVidPid
    \/ ShowDeviceInfo
    \/ SetupPin
    \/ FactoryReset
    \/ Exit

MainSpec == MainInit /\ [][MainNext]_vars

----------------------------------------------------------------------------
(* Reading the log of the last call *)

Ops == {"find_device", "get_pin_token", "reset_device", "set_pin", "send_config_command"}

\* the positions of the log where library call ev was made
At(ev) == {i \in DOMAIN calls : calls[i].ev = ev}

\* the positions where library call ev was made and succeeded
OkAt(ev) == {i \in At(ev) : calls[i].ok}

\* the last call changed the authenticator's state: a PIN was set or changed, or it was reset
DeviceChanged == OkAt("set_pin") \cup OkAt("change_pin") \cup OkAt("reset") # {}

\* the new PIN set_pin was given, as argument or at the prompt ("" when neither)
NewPinGiven ==
    IF arg.pin # NonePin
    THEN arg.pin
    ELSE IF \E i \in At("getpass") : calls[i].data = "new"
    THEN calls[CHOOSE i \in At("getpass") : calls[i].data = "new"].pin
    ELSE NonePin

----------------------------------------------------------------------------
(* C1: a configuration envelope is dispatched only under a token that a    *)
(* successful PIN authentication returned and that has not been            *)
(* invalidated since: whenever send_cbor was called, the token that        *)
(* authenticated the envelope is the one the authenticator honours.        *)
C1_DispatchOnlyUnderValidToken ==
    \A i \in At("send_cbor") :
        /\ calls[i].tok # NoToken
        /\ calls[i].tok <= issued
        /\ calls[i].tok = devTok

(* C2: send_config_command entered without a token asks for the PIN and    *)
(* authenticates first (whenever the session is connected and Device Info  *)
(* reports a PIN), dispatches only after that authentication succeeded and *)
(* under the token it returned, and without a successful authentication    *)
(* returns False and dispatches nothing.                                   *)
C2_AuthenticatesBeforeDispatch ==
    (lastOp = "send_config_command" /\ pre.pin_token = NoToken) =>
        /\ (pre.ctap2 # NoneV /\ pre.info.present /\ pre.info.clientPin) =>
               /\ Len(calls) >= 2
               /\ calls[1].ev = "getpass"
               /\ calls[2].ev = "get_pin_token"
        /\ \A i \in At("send_cbor") :
               \E j \in OkAt("get_pin_token") : j < i /\ calls[i].tok = calls[j].tok
        /\ OkAt("get_pin_token") = {} => (lastRet = "False" /\ At("send_cbor") = {})

C2_Witness ==
    /\ lastOp = "send_config_command"
    /\ pre.pin_token = NoToken
    /\ lastRet = "True"
    /\ OkAt("get_pin_token") # {}
    /\ OkAt("send_cbor") # {}

(* C3: a send_config_command that returned False leaves no token, the      *)
(* session never again holds a token it held during a failed call, and a   *)
(* call entered without a token dispatches only under a token obtained by  *)
(* an authentication made in that call.                                    *)
C3_FailedConfigForcesReauthentication ==
    /\ (lastOp = "send_config_command" /\ lastRet = "False") => pin_token = NoToken
    /\ pin_token \notin retired
    /\ (lastOp = "send_config_command" /\ pre.pin_token = NoToken) =>
           \A i \in At("send_cbor") :
               \E j \in OkAt("get_pin_token") : j < i /\ calls[j].tok = calls[i].tok

\* a dispatch under a live token was rejected, and the token is gone
C3_Witness ==
    /\ lastOp = "send_config_command"
    /\ lastRet = "False"
    /\ pre.pin_token # NoToken
    /\ At("send_cbor") # {}
    /\ pre.pin_token \in retired
    /\ pin_token = NoToken

(* C4: a send_config_command, set_pin or reset_device entered with a live  *)
(* token that returns False leaves the session with no token.              *)
C4_AnyFailureClearsToken ==
    (/\ lastOp \in {"send_config_command", "set_pin", "reset_device"}
     /\ pre.pin_token # NoToken
     /\ lastRet = "False") => pin_token = NoToken

(* C5: whenever get_pin_token returns False the session holds no token,    *)
(* also when it held one on entry.                                         *)
C5_FailedAuthLeavesNoToken ==
    (lastOp = "get_pin_token" /\ lastRet = "False") => pin_token = NoToken

(* C6: after set_pin returned True the session holds no token, and the     *)
(* session never holds again, nor dispatches under, a token it held when   *)
(* a set_pin succeeded.                                                    *)
C6_SetPinSuccessClearsToken ==
    /\ (lastOp = "set_pin" /\ lastRet = "True") => pin_token = NoToken
    /\ pin_token \notin retired
    /\ (lastOp = "send_config_command" /\ lastRet = "True") =>
           \A i \in At("send_cbor") : calls[i].tok \notin retired

\* an existing PIN was changed while the session held a token
C6_Witness ==
    /\ lastOp = "set_pin"
    /\ lastRet = "True"
    /\ OkAt("change_pin") # {}
    /\ pre.pin_token # NoToken
    /\ pre.pin_token \in retired

(* C7: after reset_device returned True the session holds no token and no  *)
(* PIN client, Device Info is what the authenticator reports after the     *)
(* reset and not the snapshot held on entry, and the session is connected. *)
C7_ResetSuccessRefreshes ==
    (lastOp = "reset_device" /\ lastRet = "True") =>
        /\ pin_token = NoToken
        /\ client_pin = NoClient
        /\ info = DeviceInfo(Cur)
        /\ ~info.clientPin
        /\ info # pre.info
        /\ dev # NoneV
        /\ ctap2 # NoneV

\* a device with a PIN was reset while the session held a token and a PIN client
C7_Witness ==
    /\ lastOp = "reset_device"
    /\ lastRet = "True"
    /\ pre.pin_token # NoToken
    /\ pre.client_pin # NoClient
    /\ pre.info.clientPin

(* C8: set_pin with a new PIN shorter than 4 characters, when Device Info  *)
(* reports no PIN, returns False without any call to the device and leaves *)
(* token and Device Info as they were.                                     *)
C8_ShortFirstPinNotSent ==
    (/\ lastOp = "set_pin"
     /\ ~pre.info.clientPin
     /\ NewPinGiven # NonePin
     /\ Len(NewPinGiven) < 4) =>
        /\ lastRet = "False"
        /\ \A i \in DOMAIN calls : calls[i].ev = "getpass"
        /\ pin_token = pre.pin_token
        /\ info = pre.info

\* a 3-character PIN was typed twice on a connected device without PIN
C8_Witness ==
    /\ lastOp = "set_pin"
    /\ pre.ctap2 # NoneV
    /\ pre.info.present
    /\ ~pre.info.clientPin
    /\ arg.pin = NonePin
    /\ Len(calls) = 2
    /\ calls[1].pin = "abc"
    /\ calls[2].pin = "abc"
    /\ lastRet = "False"

(* C9: no set-PIN and no change-PIN request is made with a new PIN shorter *)
(* than 4 or longer than 63 characters.                                    *)
C9_NewPinLengthCheckedLocally ==
    \A i \in At("set_pin") \cup At("change_pin") :
        Len(calls[i].pin) >= 4 /\ Len(calls[i].pin) <= 63

(* C10: when a call has changed the authenticator's state (first PIN set,  *)
(* PIN changed, reset), Device Info was fetched again after the change and *)
(* before the call ended, so the session's snapshot is the one taken after *)
(* the change.                                                             *)
C10_InfoRefetchedAfterChange ==
    DeviceChanged =>
        /\ \E i \in OkAt("set_pin") \cup OkAt("change_pin") \cup OkAt("reset") :
               \E j \in OkAt("get_info") : i < j
        /\ info = DeviceInfo(Cur)

(* C11: every dispatched envelope carries in field 0x03 the version of,    *)
(* and in field 0x04 a tag computed with, the PIN protocol of the PIN      *)
(* client that obtained the token the envelope is authenticated with; and  *)
(* while the session holds a token, the protocol it has recorded is the    *)
(* one that client used.                                                   *)
C11_ProtocolOfTheTokenIsUsed ==
    /\ pin_token # NoToken => pin_protocol = issuedVia[pin_token]
    /\ \A i \in At("send_cbor") :
           /\ calls[i].data[2][3] = issuedVia[calls[i].tok]
           /\ calls[i].data[2][4][1] = issuedVia[calls[i].tok]
           /\ calls[i].data[2][4][2] = calls[i].tok

\* an envelope was accepted under a token obtained in PIN protocol 1, which
\* is not the fallback of lines 102-106
C11_Witness ==
    /\ lastOp = "send_config_command"
    /\ lastRet = "True"
    /\ \E i \in OkAt("send_cbor") :
           /\ issuedVia[calls[i].tok] = 1
           /\ calls[i].data[2][3] = 1

----------------------------------------------------------------------------
(* Reading CBOR as the receiver of an envelope does (RFC 8949, major      *)
(* types 0, 2 and 5)                                                       *)

Rest(b, n) == SubSeq(b, n + 1, Len(b))

\* the unsigned integer at the head of b and the bytes after it; an integer
\* of 8 bytes is returned as its bytes
ReadUInt(b) ==
    IF b = <<>> THEN [ok |-> FALSE, val |-> 0, rest |-> <<>>]
    ELSE IF b[1] < 24 THEN [ok |-> TRUE, val |-> b[1], rest |-> Rest(b, 1)]
    ELSE IF b[1] = 24 /\ Len(b) >= 2
    THEN [ok |-> TRUE, val |-> b[2], rest |-> Rest(b, 2)]
    ELSE IF b[1] = 25 /\ Len(b) >= 3
    THEN [ok |-> TRUE, val |-> b[2] * 256 + b[3], rest |-> Rest(b, 3)]
    ELSE IF b[1] = 26 /\ Len(b) >= 5
    THEN [ok |-> TRUE, val |-> ((b[2] * 256 + b[3]) * 256 + b[4]) * 256 + b[5],
          rest |-> Rest(b, 5)]
    ELSE IF b[1] = 27 /\ Len(b) >= 9
    THEN [ok |-> TRUE, val |-> SubSeq(b, 2, 9), rest |-> Rest(b, 9)]
    ELSE [ok |-> FALSE, val |-> 0, rest |-> <<>>]

\* the map {1: paramId, 3: value} at the head of b and the bytes after it
ReadSubcommand(b) ==
    IF Len(b) < 2 \/ b[1] # 162 \/ b[2] # 1
    THEN [ok |-> FALSE, paramId |-> <<>>, value |-> 0, rest |-> <<>>]
    ELSE LET id == ReadUInt(Rest(b, 2))
         IN  IF ~id.ok \/ id.rest = <<>> \/ id.rest[1] # 3
             THEN [ok |-> FALSE, paramId |-> <<>>, value |-> 0, rest |-> <<>>]
             ELSE LET v == ReadUInt(Rest(id.rest, 1))
                  IN  [ok |-> v.ok, paramId |-> id.val, value |-> v.val, rest |-> v.rest]

\* the envelope b decoded: a map of the four keys 1, 2, 3, 4 whose last
\* value is a byte string that ends the envelope
ReadEnvelope(b) ==
    LET bad == [ok |-> FALSE, paramId |-> <<>>, value |-> 0, version |-> 0, marker |-> 0]
    IN  IF Len(b) < 2 \/ b[1] # 164 \/ b[2] # 1 THEN bad
        ELSE LET m == ReadUInt(Rest(b, 2))
             IN  IF ~m.ok \/ m.rest = <<>> \/ m.rest[1] # 2 THEN bad
                 ELSE LET sub == ReadSubcommand(Rest(m.rest, 1))
                      IN  IF ~sub.ok \/ sub.rest = <<>> \/ sub.rest[1] # 3 THEN bad
                          ELSE LET v == ReadUInt(Rest(sub.rest, 1))
                               IN  IF ~v.ok \/ Len(v.rest) < 3 \/ v.rest[1] # 4 THEN bad
                                   ELSE IF Rest(v.rest, 1)[1] \notin {80, 88} THEN bad
                                   ELSE [ok |-> TRUE, paramId |-> sub.paramId,
                                         value |-> sub.value, version |-> v.val,
                                         marker |-> m.val]

\* the command and the value the last menu operation was asked to send
MenuRequest ==
    IF lastOp = "configure_button_timeout"
    THEN [paramId |-> CTAP_CONFIG_PHY_UP_BTN, value |-> arg.input[1]]
    ELSE IF lastOp = "configure_led_settings" /\ arg.input[1] = "1"
    THEN [paramId |-> CTAP_CONFIG_PHY_LED_GPIO, value |-> arg.input[3]]
    ELSE IF lastOp = "configure_led_settings"
    THEN [paramId |-> CTAP_CONFIG_PHY_LED_BTNESS, value |-> arg.input[3]]
    ELSE IF lastOp = "configure_phy_options"
    THEN [paramId |-> CTAP_CONFIG_PHY_OPTS, value |-> arg.input[2]]
    ELSE [paramId |-> CTAP_CONFIG_PHY_VIDPID,
          value |-> arg.input[3] * 65536 + arg.input[4]]

(* C12: for the (paramId, value) a menu operation passes to                *)
(* send_config_command, the envelope dispatched has exactly the keys 1 to  *)
(* 4, with 0xFF under 1 and {1: paramId, 3: value} under 2; the message    *)
(* authenticated is 32 bytes 0xFF, then 0x0D, 0xFF and the encoding of     *)
(* {1: paramId, 3: value}; and the envelope as encoded for the wire        *)
(* decodes to the same paramId, value and protocol version.                *)
C12_EnvelopeIsExact ==
    \A i \in At("send_cbor") :
        LET env == calls[i].data[2]
            msg == env[4][3]
            inner == ReadSubcommand(Rest(msg, 34))
            decoded == ReadEnvelope(calls[i].data[3])
        IN  /\ calls[i].data[1] = 13
            /\ DOMAIN env = {1, 2, 3, 4}
            /\ env[1] = 255
            /\ DOMAIN env[2] = {1, 3}
            /\ env[2][1] = MenuRequest.paramId
            /\ env[2][3] = MenuRequest.value
            /\ Len(msg) > 34
            /\ \A k \in 1..32 : msg[k] = 255
            /\ msg[33] = 13
            /\ msg[34] = 255
            /\ inner.ok /\ inner.rest = <<>>
            /\ inner.paramId = MenuRequest.paramId
            /\ inner.value = MenuRequest.value
            /\ decoded.ok
            /\ decoded.marker = 255
            /\ decoded.paramId = MenuRequest.paramId
            /\ decoded.value = MenuRequest.value
            /\ decoded.version = pin_protocol

\* the envelope of VID 0x2E8A, PID 0x10FE was accepted
C12_Witness ==
    /\ lastOp = "configure_vidpid"
    /\ \E i \in OkAt("send_cbor") :
           /\ calls[i].data[2][2][3] = 780800254
           /\ ReadEnvelope(calls[i].data[3]).value = 780800254

(* C13: a call is a single attempt: a send_config_command makes at most    *)
(* one PIN exchange and at most one dispatch, a get_pin_token asks for and *)
(* submits the PIN at most once, a reset_device sends at most one reset    *)
(* request, so that an exchange that failed is not repeated in the call.   *)
C13_SingleAttempt ==
    /\ lastOp = "send_config_command" =>
           /\ Cardinality(At("get_pin_token")) <= 1
           /\ Cardinality(At("send_cbor")) <= 1
           /\ Cardinality(At("reset")) = 0
    /\ lastOp = "get_pin_token" =>
           /\ Cardinality(At("getpass")) <= 1
           /\ Cardinality(At("get_pin_token")) <= 1
           /\ Len(calls) <= 2
    /\ lastOp = "reset_device" =>
           /\ Cardinality(At("reset")) <= 1
           /\ Cardinality(At("get_info")) <= 1
           /\ Len(calls) <= 2

\* a reset request timed out and the call ended there
C13_Witness ==
    /\ lastOp = "reset_device"
    /\ lastRet = "False"
    /\ Len(calls) = 1
    /\ calls[1].ev = "reset"
    /\ calls[1].data = "TIMEOUT"

MenuOps ==
    {"configure_button_timeout", "configure_led_settings", "configure_phy_options",
     "configure_vidpid", "show_device_info", "setup_pin", "factory_reset"}

\* main() did not find a device that answers authenticatorGetInfo
DiscoveryFailed ==
    /\ lastOp = "main"
    /\ \E i \in 1..3 :
           /\ i <= Len(calls)
           /\ calls[i].ev \in {"list_devices", "Ctap2", "get_info"}
           /\ ~calls[i].ok

(* C14: when the discovery at the start of main() fails the program ends   *)
(* with exit status 1, and it ends so only there, before any menu          *)
(* operation; after a menu operation, whatever failed in it, the program   *)
(* is back at the menu, where a further operation can be chosen.           *)
C14_OnlyDiscoveryFailureIsFatal ==
    /\ DiscoveryFailed => (pc = "exit1" /\ Len(calls) <= 3)
    /\ pc = "exit1" => DiscoveryFailed
    /\ lastOp \in MenuOps => (pc = "menu" /\ ENABLED ShowDeviceInfo)

\* a button-timeout configuration was refused by the device, and the
\* program is at the menu
C14_Witness ==
    /\ lastOp = "configure_button_timeout"
    /\ lastRet = "False"
    /\ \E i \in At("send_cbor") : ~calls[i].ok
    /\ pc = "menu"

(* C15: when the user interrupts the wait for the button while the reset   *)
(* request is pending, the session keeps its device handle, its Device     *)
(* Info, its token and its PIN client as they were, it is still connected, *)
(* and factory_reset returns False.                                        *)
C15_InterruptedResetChangesNothing ==
    (lastOp = "factory_reset" /\ \E i \in At("reset") : calls[i].data = "interrupt") =>
        /\ lastRet = "False"
        /\ dev = pre.dev
        /\ ctap2 = pre.ctap2
        /\ info = pre.info
        /\ pin_token = pre.pin_token
        /\ client_pin = pre.client_pin
        /\ dev # NoneV /\ ctap2 # NoneV
        /\ Len(calls) = 1
        /\ pc = "menu"

\* the wait of a factory reset was interrupted while the session held a token
C15_Witness ==
    /\ lastOp = "factory_reset"
    /\ \E i \in At("reset") : calls[i].data = "interrupt"
    /\ pre.pin_token # NoToken
    /\ pin_token = pre.pin_token
    /\ lastRet = "False"

(* C16: the value dispatched for a VID and a PID typed at the prompts has  *)
(* the VID in its high 16 bits and the PID in its low 16 bits, both within *)
(* 0..0xFFFF, and so fits in 32 bits (VID 0x2E8A and PID 0x10FE give       *)
(* 0x2E8A10FE); when the VID or the PID typed is outside 0..0xFFFF         *)
(* nothing is dispatched.                                                  *)
C16_VidPidPacked ==
    lastOp = "configure_vidpid" =>
        LET vid == arg.input[3]
            pid == arg.input[4]
        IN  /\ \A i \in At("send_cbor") :
                   LET value == calls[i].data[2][2][3]
                   IN  /\ calls[i].data[2][2][1] = CTAP_CONFIG_PHY_VIDPID
                       /\ vid \in 0..65535 /\ pid \in 0..65535
                       /\ value >= 0
                       /\ value \div 65536 < 65536
                       /\ value \div 65536 = vid
                       /\ value % 65536 = pid
                       /\ (vid = 11914 /\ pid = 4350) => value = 780800254
            /\ (vid \notin 0..65535 \/ pid \notin 0..65535) => calls = <<>>

\* VID 0x7FFF and PID 0xFFFF were dispatched as 0x7FFFFFFF
C16_Witness ==
    /\ lastOp = "configure_vidpid"
    /\ arg.input[3] = 32767
    /\ arg.input[4] = 65535
    /\ \E i \in OkAt("send_cbor") : calls[i].data[2][2][3] = 2147483647

(* C17: when the session's Device Info does not report a PIN (clientPin    *)
(* false or absent), get_pin_token returns False without a prompt and      *)
(* without a PIN exchange, and a send_config_command entered without a     *)
(* token returns False without a dispatch.                                 *)
C17_NoPinNoExchange ==
    /\ (lastOp = "get_pin_token" /\ ~pre.info.clientPin) =>
           /\ lastRet = "False"
           /\ At("getpass") = {}
           /\ At("get_pin_token") = {}
    /\ (lastOp = "send_config_command" /\ ~pre.info.clientPin
                                       /\ pre.pin_token = NoToken) =>
           /\ lastRet = "False"
           /\ At("getpass") = {}
           /\ At("get_pin_token") = {}
           /\ At("send_cbor") = {}

\* send_config_command on a connected session whose Device Info reports no
\* PIN returned False
C17_Witness ==
    /\ lastOp = "send_config_command"
    /\ pre.ctap2 # NoneV
    /\ pre.info.present
    /\ ~pre.info.clientPin
    /\ pre.pin_token = NoToken
    /\ lastRet = "False"

(* C18: the menu dispatches a button timeout only within 0..255, an LED    *)
(* brightness only within 0..255, an LED GPIO only within 0..29 and PHY    *)
(* options only within 0..15; when the number typed is outside the range   *)
(* the operation returns without authenticating and without dispatching.   *)
C18_MenuValuesInRange ==
    /\ \A i \in At("send_cbor") :
           LET paramId == calls[i].data[2][2][1]
               value == calls[i].data[2][2][3]
           IN  /\ paramId = CTAP_CONFIG_PHY_UP_BTN => value \in 0..255
               /\ paramId = CTAP_CONFIG_PHY_LED_BTNESS => value \in 0..255
               /\ paramId = CTAP_CONFIG_PHY_LED_GPIO => value \in 0..29
               /\ paramId = CTAP_CONFIG_PHY_OPTS => value \in 0..15
    /\ (lastOp = "configure_button_timeout" /\ arg.input[1] \notin 0..255)
           => calls = <<>>
    /\ (lastOp = "configure_led_settings" /\ arg.input[1] = "1" /\ arg.input[2]
                                          /\ arg.input[3] \notin 0..29)
           => calls = <<>>
    /\ (lastOp = "configure_led_settings" /\ arg.input[1] = "2" /\ arg.input[2]
                                          /\ arg.input[3] \notin 0..255)
           => calls = <<>>
    /\ (lastOp = "configure_phy_options" /\ arg.input[1] /\ arg.input[2] \notin 0..15)
           => calls = <<>>

\* GPIO 30 was typed in a session without a token on a device with a PIN:
\* no PIN was asked for and nothing was sent
C18_Witness ==
    /\ lastOp = "configure_led_settings"
    /\ arg.input = <<"1", TRUE, 30>>
    /\ pre.info.clientPin
    /\ pre.pin_token = NoToken
    /\ calls = <<>>

\* the new PIN and its confirmation were typed in the last call and differ
PinMismatch ==
    \E i, j \in At("getpass") :
        /\ calls[i].data = "new"
        /\ calls[j].data = "confirm"
        /\ calls[i].pin # calls[j].pin

(* C19: when the new PIN and its confirmation differ, set_pin returns      *)
(* False, has sent neither a set-PIN nor a change-PIN request, and leaves  *)
(* the token and Device Info as they were, whether the device has a PIN    *)
(* or not.                                                                 *)
C19_MismatchSendsNothing ==
    (lastOp = "set_pin" /\ PinMismatch) =>
        /\ lastRet = "False"
        /\ At("set_pin") = {}
        /\ At("change_pin") = {}
        /\ pin_token = pre.pin_token
        /\ info = pre.info

\* the confirmation of a new PIN differed on the change-PIN path, in a
\* session that held a token
C19_Witness ==
    /\ lastOp = "set_pin"
    /\ PinMismatch
    /\ pre.info.clientPin
    /\ pre.pin_token # NoToken
    /\ lastRet = "False"

(* C20: send_config_command leaves the session's Device Info and device    *)
(* handle as they were, whether it returns True or False; so after a       *)
(* successful button-timeout command (PHY_UP_BTN, 30, PIN 1234) the        *)
(* Device Info snapshot is the one held before the call.                   *)
C20_ConfigKeepsInfoAndHandle ==
    lastOp = "send_config_command" =>
        /\ info = pre.info
        /\ dev = pre.dev
        /\ ctap2 = pre.ctap2

\* PHY_UP_BTN was set to 30 after the PIN 1234 was typed
C20_Witness ==
    /\ lastOp = "send_config_command"
    /\ lastRet = "True"
    /\ arg.cmd = CTAP_CONFIG_PHY_UP_BTN
    /\ arg.value = 30
    /\ \E i \in At("getpass") : calls[i].pin = "1234"
    /\ OkAt("send_cbor") # {}
    /\ info.present
    /\ info = pre.info

\* the device refused the reset of the last call: the power-on window was
\* missed or the feature is off, or the button was not pressed in time
ResetRefused ==
    \E i \in At("reset") : calls[i].data \in {"NOT_ALLOWED", "TIMEOUT"}

(* C21: when the device refuses a reset (not allowed, or no button press   *)
(* within the wait), reset_device returns False and the session's Device   *)
(* Info is the one it held before the call.                                *)
C21_RefusedResetKeepsInfo ==
    (lastOp = "reset_device" /\ ResetRefused) =>
        /\ lastRet = "False"
        /\ info = pre.info
        /\ At("get_info") = {}

\* a connected session was refused a reset as not allowed
C21_Witness ==
    /\ lastOp = "reset_device"
    /\ pre.info.present
    /\ Len(calls) = 1
    /\ calls[1].data = "NOT_ALLOWED"
    /\ lastRet = "False"

(* C22: when find_device returns False (no device listed, or the info      *)
(* fetch failed) the session is disconnected: it holds no device handle    *)
(* and no protocol client.                                                 *)
C22_FailedDiscoveryKeepsNothing ==
    (lastOp = "find_device" /\ lastRet = "False") =>
        /\ dev = NoneV
        /\ ctap2 = NoneV

(* C23: when a call has reset the device or set or changed its PIN, the    *)
(* session holds no token when the call returns, whether the call returns  *)
(* True or, because a later step of it failed, False.                      *)
C23_DeviceChangeClearsToken ==
    DeviceChanged => pin_token = NoToken

(* C24: on a session that has no protocol client, get_pin_token, set_pin,  *)
(* reset_device and send_config_command return False, make no prompt and  *)
(* no library call, and leave every field of the session as it was.        *)
C24_UnconnectedCallsDoNothing ==
    (/\ lastOp \in {"get_pin_token", "set_pin", "reset_device", "send_config_command"}
     /\ pre.ctap2 = NoneV) =>
        /\ lastRet = "False"
        /\ calls = <<>>
        /\ Session(Cur) = pre

\* set_pin was called with a new PIN on a session that never found a device
C24_Witness ==
    /\ lastOp = "set_pin"
    /\ pre.dev = NoneV
    /\ pre.ctap2 = NoneV
    /\ arg.pin = "4321"
    /\ lastRet = "False"
    /\ calls = <<>>

====
